---- MODULE Spec2Model ----
(***************************************************************************)
(* V3Scope.cpp: the scope pass of the netlist.  ScopeVisitor builds one    *)
(* AstScope per cell path, clones the statement blocks of every module     *)
(* under each of its scopes, creates the AstVarScopes, and finally binds   *)
(* the queued AstVarRefs (cleanupVarRefs).  ScopeCleanupVisitor then walks *)
(* the whole netlist, deletes the originals left outside any scope and     *)
(* finalises the task references and cross references.                     *)
(*                                                                         *)
(* The AST is a sequence of node records; a node pointer is an index into  *)
(* it and NULL is 0.  "new" and cloneTree append nodes.  The recursion of  *)
(* the visitors is an explicit stack of frames.                            *)
(***************************************************************************)
EXTENDS Integers, Sequences, FiniteSets, TLC

\* ------------------------------------------------------------------ bounds

\* Largest number of cells of the top module that instantiate module Leaf.
MaxInst == 2

NULL == 0

\* The netlist is the root of the tree, the first node.
Netlistp == 1

\* Instance names of the cells of the top module that instantiate Leaf.
CellNames == <<"a", "b", "c", "d">>

\* ------------------------------------------------------------ the input tree

\* A node of the input, with its pointers given as labels ("" is NULL).
P0 ==
  [label |-> "", type |-> "", name |-> "", parent |-> "", varp |-> "",
   taskp |-> "", ftaskp |-> "", packagep |-> "", modp |-> "",
   isTop |-> FALSE, isTrace |-> TRUE, isIfaceRef |-> FALSE,
   isClassMember |-> FALSE, classMethod |-> FALSE]

PNode(l, t, n, p) == [P0 EXCEPT !.label = l, !.type = t, !.name = n, !.parent = p]

PCell(l, p, m, tr) ==
  [P0 EXCEPT !.label = l, !.type = "Cell", !.name = l, !.parent = p, !.modp = m,
             !.isTrace = tr]

PVarRef(l, p, v, pkg) ==
  [P0 EXCEPT !.label = l, !.type = "VarRef", !.parent = p, !.varp = v,
             !.packagep = pkg]

PTaskRef(l, t, p, f, pkg) ==
  [P0 EXCEPT !.label = l, !.type = t, !.parent = p, !.taskp = f, !.packagep = pkg]

\* The cells of the top module that instantiate Leaf, in declaration order.
LeafCells(cfg) ==
  [i \in 1..cfg.nLeaf |-> PCell(CellNames[i], "Top", "Leaf", CellNames[i] \notin cfg.notrace)]

PkgCell == <<PCell("pkg", "Top", "Pkg", TRUE)>>

TopProto(cfg) ==
  <<[PNode("Top", "Module", "Top", "NETLIST") EXCEPT !.isTop = cfg.hasTop]>>
  \o (IF cfg.pkgFirst THEN PkgCell ELSE <<>>)
  \o LeafCells(cfg)
  \o (IF cfg.hasMid THEN <<PCell("m", "Top", "Mid", "m" \notin cfg.notrace)>> ELSE <<>>)
  \o <<PNode("Top.al", "NodeProcedure", "al", "Top"),
       PVarRef("Top.r_cnt", "Top.al", "Pkg.cnt", "Pkg"),
       [P0 EXCEPT !.label = "Top.xr", !.type = "VarXRef", !.parent = "Top.al",
                  !.varp = "Leaf.x"],
       PTaskRef("Top.call_f", "FTaskRef", "Top.al", "Pkg.f", "Pkg")>>
  \o (IF cfg.pkgFirst THEN <<>> ELSE PkgCell)

MidProto(cfg) ==
  <<PNode("Mid", "Module", "Mid", "NETLIST"),
    PCell("u", "Mid", "Leaf", "u" \notin cfg.notrace),
    PNode("Mid.as", "AssignW", "as", "Mid"),
    PVarRef("Mid.r_w", "Mid.as", "Mid.w", ""),
    PNode("Mid.w", "Var", "w", "Mid"),
    PNode("Mid.cf", "CFunc", "cf", "Mid")>>

LeafProto ==
  <<PNode("Leaf", "Module", "Leaf", "NETLIST"),
    PNode("Leaf.al", "NodeProcedure", "al", "Leaf"),
    PVarRef("Leaf.r_x", "Leaf.al", "Leaf.x", ""),
    PVarRef("Leaf.r_cnt", "Leaf.al", "Pkg.cnt", "Pkg"),
    PVarRef("Leaf.r_if", "Leaf.al", "Leaf.ifv", ""),
    PTaskRef("Leaf.call_g", "FTaskRef", "Leaf.al", "Leaf.g", ""),
    [P0 EXCEPT !.label = "Leaf.mp", !.type = "ModportFTaskRef", !.parent = "Leaf.al",
               !.ftaskp = "Leaf.g"],
    PNode("Leaf.x", "Var", "x", "Leaf"),
    [PNode("Leaf.ifv", "Var", "ifv", "Leaf") EXCEPT !.isIfaceRef = TRUE],
    PNode("Leaf.g", "FTask", "g", "Leaf"),
    PVarRef("Leaf.g.r_x", "Leaf.g", "Leaf.x", ""),
    PNode("Leaf.C", "Class", "C", "Leaf"),
    [PNode("Leaf.C.cm", "Var", "cm", "Leaf.C") EXCEPT !.isClassMember = TRUE],
    [PNode("Leaf.C.meth", "FTask", "meth", "Leaf.C") EXCEPT !.classMethod = TRUE],
    PVarRef("Leaf.C.r_cm", "Leaf.C.meth", "Leaf.C.cm", ""),
    PTaskRef("Leaf.C.mc", "MethodCall", "Leaf.C.meth", "Leaf.C.meth", "")>>

PkgProto ==
  <<PNode("Pkg", "Package", "Pkg", "NETLIST"),
    PNode("Pkg.cnt", "Var", "cnt", "Pkg"),
    PNode("Pkg.f", "FTask", "f", "Pkg"),
    PVarRef("Pkg.f.r", "Pkg.f", "Pkg.cnt", ""),
    PNode("Pkg.K", "Class", "K", "Pkg"),
    [PNode("Pkg.K.km", "Var", "km", "Pkg.K") EXCEPT !.isClassMember = TRUE],
    [PNode("Pkg.K.kmeth", "FTask", "kmeth", "Pkg.K") EXCEPT !.classMethod = TRUE],
    PVarRef("Pkg.K.r_km", "Pkg.K.kmeth", "Pkg.K.km", "Pkg"),
    PTaskRef("Pkg.K.call_f", "FTaskRef", "Pkg.K.kmeth", "Pkg.f", "Pkg")>>

Design(cfg) ==
  <<PNode("NETLIST", "Netlist", "", "")>>
  \o TopProto(cfg) \o MidProto(cfg) \o LeafProto \o PkgProto

\* The pointer a label stands for.
Link(d, l) == IF l = "" THEN NULL ELSE CHOOSE i \in 1..Len(d) : d[i].label = l

RECURSIVE SeqOfSet(_)
\* The members of a set of numbers in increasing order.
SeqOfSet(S) ==
  IF S = {} THEN <<>>
  ELSE LET m == CHOOSE x \in S : \A y \in S : x <= y
       IN <<m>> \o SeqOfSet(S \ {m})

\* The tree the pass receives: every node with its links resolved.
InitAst(cfg) ==
  LET d == Design(cfg)
  IN [i \in 1..Len(d) |->
       [type |-> d[i].type, name |-> d[i].name, label |-> d[i].label,
        backp |-> Link(d, d[i].parent),
        children |-> SeqOfSet({j \in 1..Len(d) : d[j].parent = d[i].label}),
        varsp |-> <<>>,
        varp |-> Link(d, d[i].varp), taskp |-> Link(d, d[i].taskp),
        ftaskp |-> Link(d, d[i].ftaskp), packagep |-> Link(d, d[i].packagep),
        modp |-> IF d[i].type = "Netlist"
                 THEN (IF cfg.hasTop THEN Link(d, "Top") ELSE NULL)
                 ELSE Link(d, d[i].modp),
        isTop |-> d[i].isTop, isTrace |-> d[i].isTrace,
        isIfaceRef |-> d[i].isIfaceRef, isClassMember |-> d[i].isClassMember,
        classMethod |-> d[i].classMethod,
        varScopep |-> NULL, scopep |-> NULL, aboveScopep |-> NULL,
        aboveCellp |-> NULL, path |-> <<>>, trace |-> TRUE,
        attrClocker |-> "CLOCKER_UNKNOWN", user1p |-> NULL, user2p |-> NULL]]

\* The inputs: with or without a top module, one to MaxInst Leaf cells, with
\* or without the Mid level, the package cell first or last, any choice of
\* cells that opt out of tracing, and the --clk and --no-clk name lists (the
\* lists are tried with every cell traced).
ClockName == <<"TOP", CellNames[1], "x">>

Configs ==
  { c \in [hasTop : BOOLEAN, nLeaf : 1..MaxInst, hasMid : BOOLEAN,
           pkgFirst : BOOLEAN,
           notrace : SUBSET ({CellNames[i] : i \in 1..MaxInst} \cup {"u"}),
           clockers : SUBSET {ClockName},
           noClockers : SUBSET {ClockName}] :
      /\ c.notrace \subseteq {CellNames[i] : i \in 1..c.nLeaf} \cup {"u"}
      /\ c.notrace = {} \/ (c.clockers = {} /\ c.noClockers = {})
      /\ c.hasTop \/ (c.notrace = {} /\ c.clockers = {} /\ c.noClockers = {}) }

\* ------------------------------------------------------------------- state

VARIABLES
  cfg,              \* the input chosen (v3Global.opt and the shape of the tree)
  ast,              \* the node store
  pc,               \* where V3Scope::scopeAll stands
  stack,            \* the visitors' recursion
  m_modp, m_scopep, m_aboveCellp, m_aboveScopep,   \* ScopeVisitor's state
  m_packageScopes,  \* set of <<package, scope>>
  m_varScopes,      \* set of <<var, scope, varscope>>, one per <<var, scope>>
  m_varRefScopes,   \* set of <<varref, scope>>
  c_scopep,         \* ScopeCleanupVisitor::m_scopep
  deleted,          \* nodes handed to pushDeletep
  errors,           \* messages given to v3error
  fatal,            \* message of the failed UASSERT_OBJ, "" when none
  drains            \* number of calls of cleanupVarRefs

vars ==
  <<cfg, ast, pc, stack, m_modp, m_scopep, m_aboveCellp, m_aboveScopep,
    m_packageScopes, m_varScopes, m_varRefScopes, c_scopep, deleted, errors,
    fatal, drains>>

builderVars == <<m_modp, m_scopep, m_aboveCellp, m_aboveScopep>>
tableVars == <<m_packageScopes, m_varScopes, m_varRefScopes>>

\* ----------------------------------------------------------- tree plumbing

\* A node as "new" leaves it, before the constructor's arguments are set.
NewNode(t) ==
  [type |-> t, name |-> "", label |-> "", backp |-> NULL, children |-> <<>>,
   varsp |-> <<>>, varp |-> NULL, taskp |-> NULL, ftaskp |-> NULL,
   packagep |-> NULL, modp |-> NULL, isTop |-> FALSE, isTrace |-> TRUE,
   isIfaceRef |-> FALSE, isClassMember |-> FALSE, classMethod |-> FALSE,
   varScopep |-> NULL, scopep |-> NULL, aboveScopep |-> NULL,
   aboveCellp |-> NULL, path |-> <<>>, trace |-> TRUE,
   attrClocker |-> "CLOCKER_UNKNOWN", user1p |-> NULL, user2p |-> NULL]

\* The children of a node in iteration order: op1p before op2p (a scope's
\* varscopes before its blocks).
ChildrenOf(a, n) == a[n].varsp \o a[n].children

\* The statement blocks that are copied under each scope by the same code.
SimpleBlockTypes ==
  {"NodeProcedure", "AssignAlias", "AssignVarScope", "AssignW", "AlwaysPublic",
   "CoverToggle"}

\* Every statement block type.
BlockTypes == SimpleBlockTypes \cup {"FTask", "CFunc"}

IsNodeFTaskRef(a, n) == a[n].type \in {"FTaskRef", "MethodCall"}

\* AstNode::user1ClearTree
User1ClearTree(a) == [n \in DOMAIN a |-> [a[n] EXCEPT !.user1p = NULL]]

\* addStmtp / addMembersp / addActivep: link c as the last child of p.
AddChild(a, p, c) ==
  [a EXCEPT ![p].children = Append(@, c), ![c].backp = p]

\* AstScope::addVarp
AddVarp(a, p, c) ==
  [a EXCEPT ![p].varsp = Append(@, c), ![c].backp = p]

\* unlinkFrBack: take c out of its parent's list.
UnlinkFrBack(a, c) ==
  LET p == a[c].backp
  IN IF p = NULL THEN a
     ELSE [a EXCEPT ![p].children = SelectSeq(@, LAMBDA x : x # c),
                    ![p].varsp = SelectSeq(@, LAMBDA x : x # c),
                    ![c].backp = NULL]

RECURSIVE PreOrder(_, _)
RECURSIVE PreOrderAll(_, _)
\* The nodes of the tree under n, n first.
PreOrder(a, n) == <<n>> \o PreOrderAll(a, ChildrenOf(a, n))

PreOrderAll(a, s) ==
  IF s = <<>> THEN <<>> ELSE PreOrder(a, Head(s)) \o PreOrderAll(a, Tail(s))

\* Position of x in sequence s, 0 when absent.
IndexOf(s, x) ==
  IF \E i \in 1..Len(s) : s[i] = x THEN CHOOSE i \in 1..Len(s) : s[i] = x ELSE 0

\* cloneTree(false): a copy of the tree under n, unlinked; a pointer into the
\* copied tree points into the copy (cloneRelink), any other is kept.
CloneTree(a, n) ==
  LET old == PreOrder(a, n)
      base == Len(a)
      Map(x) == IF IndexOf(old, x) = 0 THEN x ELSE base + IndexOf(old, x)
      Copy(i) ==
        [a[old[i]] EXCEPT
           !.backp = IF i = 1 THEN NULL ELSE Map(@),
           !.children = [k \in 1..Len(@) |-> Map(@[k])],
           !.varsp = [k \in 1..Len(@) |-> Map(@[k])],
           !.varp = Map(@), !.taskp = Map(@), !.ftaskp = Map(@)]
  IN a \o [i \in 1..Len(old) |-> Copy(i)]

\* ----------------------------------------------------------- the recursion

Frame(f, n) ==
  [fn |-> f, nodep |-> n, idx |-> 1, oldScopep |-> NULL, oldAbCellp |-> NULL,
   oldAbScopep |-> NULL]

TopFrame == stack[Len(stack)]

\* The stack with its top frame replaced.
SetTop(st, f) == [st EXCEPT ![Len(st)] = f]

Pop(st) == SubSeq(st, 1, Len(st) - 1)

\* The iteration of the top frame stands at a child.
AtChild == /\ stack # <<>>
           /\ TopFrame.fn \in {"iter", "iter_mod", "iter_class", "iter_scope"}
           /\ TopFrame.idx <= Len(ChildrenOf(ast, TopFrame.nodep))

\* The iteration of the top frame has passed the last child.
AtEnd(f) == /\ stack # <<>>
            /\ TopFrame.fn = f
            /\ TopFrame.idx > Len(ChildrenOf(ast, TopFrame.nodep))

\* The child the iteration stands at.
Cur == ChildrenOf(ast, TopFrame.nodep)[TopFrame.idx]

\* The iteration steps to the next sibling.
Advance(st) == SetTop(st, [st[Len(st)] EXCEPT !.idx = @ + 1])

\* iterateChildren(c) from the visit of the current child c: the caller's
\* iteration moves on and the children of c are walked first.
IterateChildren(a, st, c) ==
  IF ChildrenOf(a, c) = <<>> THEN Advance(st)
  ELSE Append(Advance(st), Frame("iter", c))

\* ------------------------------------------------------------------- Init

Init ==
  /\ cfg \in Configs
  /\ ast = InitAst(cfg)
  /\ pc = "start"
  /\ stack = <<>>
  /\ m_modp = NULL /\ m_scopep = NULL /\ m_aboveCellp = NULL /\ m_aboveScopep = NULL
  /\ m_packageScopes = {} /\ m_varScopes = {} /\ m_varRefScopes = {}
  /\ c_scopep = NULL
  /\ deleted = {}
  /\ errors = {}
  /\ fatal = ""
  /\ drains = 0


\* ------------------------------------------------------------ ScopeVisitor

\* The name of the scope of a module: "TOP", or the name of the scope above,
\* a dot and the name of the cell.  A name is the sequence of its components.
ScopeName(a, aboveScopep, aboveCellp) ==
  IF aboveScopep = NULL THEN <<"TOP">>
  ELSE Append(a[aboveScopep].path, a[aboveCellp].name)

\* The name of the scope of a class: the name of the scope above, a dot and
\* the name of the class.
ClassScopeName(a, aboveScopep, classp) ==
  IF aboveScopep = NULL THEN <<"TOP">>
  ELSE Append(a[aboveScopep].path, a[classp].name)

\* new AstScope(fl, modp, name, aboveScopep, aboveCellp)
NewScope(modp, name, aboveScopep, aboveCellp) ==
  [NewNode("Scope") EXCEPT !.path = name, !.modp = modp,
                           !.aboveScopep = aboveScopep, !.aboveCellp = aboveCellp]

\* m_packageScopes.insert: a package that has an entry keeps it.
PackageScopesInsert(tab, pkgp, scopep) ==
  IF \E e \in tab : e[1] = pkgp THEN tab ELSE tab \cup {<<pkgp, scopep>>}

\* m_varScopes.insert: a <<var, scope>> that has an entry keeps it.
VarScopesInsert(tab, varp, scopep, varscp) ==
  IF \E e \in tab : e[1] = varp /\ e[2] = scopep THEN tab
  ELSE tab \cup {<<varp, scopep, varscp>>}

\* The cell loop without the restore of m_scopep: the child's scope stays.
RestoredScopepStale(oldScopep, childScopep) == childScopep

\* What the cell loop restores m_scopep to after a child module.
RestoredScopep(oldScopep, childScopep) == oldScopep

\* The cell loop without the restore of m_aboveCellp: the child's cell stays.
RestoredAbCellpStale(oldAbCellp, childAbCellp) == childAbCellp

\* What the cell loop restores m_aboveCellp to after a child module.
RestoredAbCellp(oldAbCellp, childAbCellp) == oldAbCellp

\* What the cell loop restores m_aboveScopep to after a child module.
RestoredAbScopep(oldAbScopep, childAbScopep) == oldAbScopep

\* AstVarScope::prettyName: the scope's name, a dot and the variable's name.
PrettyName(a, varscp) == Append(a[a[varscp].scopep].path, a[a[varscp].varp].name)

\* v3Global.opt.isClocker / isNoClocker
IsClocker(name) == name \in cfg.clockers

IsNoClocker(name) == name \in cfg.noClockers

\* The trace flag of a new varscope: cleared under a cell that is not traced.
VarScopeTrace(a, aboveCellp) == ~(aboveCellp # NULL /\ ~a[aboveCellp].isTrace)

\* visit(AstNetlist): without a top module an error and nothing else; with
\* one, the walk starts at it.
VisitNetlist ==
  /\ pc = "start"
  /\ LET modp == ast[Netlistp].modp
     IN IF modp = NULL
        THEN /\ errors' = errors \cup {"No top level module found"}
             /\ pc' = "clean_start"
             /\ UNCHANGED <<stack, m_aboveCellp, m_aboveScopep>>
        ELSE /\ m_aboveCellp' = NULL
             /\ m_aboveScopep' = NULL
             /\ stack' = <<Frame("mod_enter", modp)>>
             /\ pc' = "build"
             /\ UNCHANGED errors
  /\ UNCHANGED <<cfg, ast, m_modp, m_scopep, tableVars, c_scopep, deleted, fatal, drains>>

\* visit(AstNodeModule), up to the cell loop: the scope is made at once, and
\* a package's scope is recorded.
VisitNodeModule ==
  /\ pc = "build" /\ stack # <<>> /\ TopFrame.fn = "mod_enter"
  /\ LET nodep == TopFrame.nodep
         scopep == Len(ast) + 1
         scopename == ScopeName(ast, m_aboveScopep, m_aboveCellp)
     IN /\ ast' = Append(User1ClearTree(ast),
                         NewScope(nodep, scopename, m_aboveScopep, m_aboveCellp))
        /\ m_scopep' = scopep
        /\ m_packageScopes' =
             IF ast[nodep].type = "Package"
             THEN PackageScopesInsert(m_packageScopes, nodep, scopep)
             ELSE m_packageScopes
        /\ stack' = SetTop(stack, Frame("mod_cells", nodep))
  /\ UNCHANGED <<cfg, pc, m_modp, m_aboveCellp, m_aboveScopep, m_varScopes,
                 m_varRefScopes, c_scopep, deleted, errors, fatal, drains>>

\* The cell loop at a cell: the context is saved, set for the child, and the
\* child's module is visited.
CellLoopDescend ==
  /\ pc = "build" /\ stack # <<>> /\ TopFrame.fn = "mod_cells"
  /\ TopFrame.idx <= Len(ast[TopFrame.nodep].children)
  /\ LET cellp == ast[TopFrame.nodep].children[TopFrame.idx]
     IN /\ ast[cellp].type = "Cell"
        /\ IF ast[cellp].modp = NULL
           THEN /\ fatal' = "Unlinked mod" /\ pc' = "aborted"
                /\ UNCHANGED <<stack, m_aboveCellp, m_aboveScopep>>
           ELSE /\ stack' = Append(SetTop(stack, [TopFrame EXCEPT
                                     !.oldScopep = m_scopep,
                                     !.oldAbCellp = m_aboveCellp,
                                     !.oldAbScopep = m_aboveScopep]),
                                   Frame("mod_enter", ast[cellp].modp))
                /\ m_aboveCellp' = cellp
                /\ m_aboveScopep' = m_scopep
                /\ UNCHANGED <<fatal, pc>>
  /\ UNCHANGED <<cfg, ast, m_modp, m_scopep, tableVars, c_scopep, deleted, errors, drains>>

\* The cell loop at a statement that is no cell.
CellLoopSkip ==
  /\ pc = "build" /\ stack # <<>> /\ TopFrame.fn = "mod_cells"
  /\ TopFrame.idx <= Len(ast[TopFrame.nodep].children)
  /\ ast[ast[TopFrame.nodep].children[TopFrame.idx]].type # "Cell"
  /\ stack' = Advance(stack)
  /\ UNCHANGED <<cfg, ast, pc, builderVars, tableVars, c_scopep, deleted, errors,
                 fatal, drains>>

\* visit(AstNodeModule) after the cell loop: the scope is linked under the
\* module (under a new AstTopScope for the top module) and the module's
\* children are iterated.
ModulePopulate ==
  /\ pc = "build" /\ stack # <<>> /\ TopFrame.fn = "mod_cells"
  /\ TopFrame.idx > Len(ast[TopFrame.nodep].children)
  /\ LET nodep == TopFrame.nodep
         a1 == User1ClearTree(ast)
         topscp == Len(ast) + 1
     IN /\ m_modp' = nodep
        /\ ast' = IF a1[nodep].isTop
                  THEN AddChild(AddChild(Append(a1, NewNode("TopScope")),
                                         topscp, m_scopep),
                                nodep, topscp)
                  ELSE AddChild(a1, nodep, m_scopep)
        /\ stack' = SetTop(stack, Frame("iter_mod", nodep))
  /\ UNCHANGED <<cfg, pc, m_scopep, m_aboveCellp, m_aboveScopep, tableVars,
                 c_scopep, deleted, errors, fatal, drains>>

\* visit(AstNodeModule) returns: to the cell loop of the module above, which
\* restores its context, or to visit(AstNetlist).
ModuleReturn ==
  /\ pc = "build" /\ AtEnd("iter_mod")
  /\ LET st == Pop(stack)
     IN IF st = <<>>
        THEN /\ pc' = "resolve"
             /\ stack' = st
             /\ UNCHANGED <<m_scopep, m_aboveCellp, m_aboveScopep>>
        ELSE LET f == st[Len(st)]
             IN /\ m_scopep' = RestoredScopep(f.oldScopep, m_scopep)
                /\ m_aboveCellp' = RestoredAbCellp(f.oldAbCellp, m_aboveCellp)
                /\ m_aboveScopep' = RestoredAbScopep(f.oldAbScopep, m_aboveScopep)
                /\ stack' = Advance(st)
                /\ pc' = pc
  /\ UNCHANGED <<cfg, ast, m_modp, tableVars, c_scopep, deleted, errors, fatal, drains>>


\* The clocker attribute after a varscope named name is made for the variable.
AttrClocker(old, name) ==
  IF IsNoClocker(name) THEN "CLOCKER_NO"
  ELSE IF IsClocker(name) THEN "CLOCKER_YES"
  ELSE old

\* Whether visit(AstVar) makes a varscope: not when user1p is already set.
MakesVarScope(a, nodep) == a[nodep].user1p = NULL

\* visit(AstVar): the first visit since user1 was cleared makes the varscope
\* of the variable under the current scope.
VisitVar ==
  /\ pc = "build" /\ AtChild /\ ast[Cur].type = "Var"
  /\ LET nodep == Cur
         varscp == Len(ast) + 1
         a1 == Append(ast, [NewNode("VarScope") EXCEPT
                              !.scopep = m_scopep, !.varp = nodep,
                              !.trace = VarScopeTrace(ast, m_aboveCellp)])
         a2 == [a1 EXCEPT ![nodep].user1p = varscp,
                          ![nodep].attrClocker = AttrClocker(@, PrettyName(a1, varscp))]
     IN IF MakesVarScope(ast, nodep)
        THEN /\ ast' = AddVarp(a2, m_scopep, varscp)
             /\ m_varScopes' = VarScopesInsert(m_varScopes, nodep, m_scopep, varscp)
        ELSE UNCHANGED <<ast, m_varScopes>>
  /\ stack' = Advance(stack)
  /\ UNCHANGED <<cfg, pc, builderVars, m_packageScopes, m_varRefScopes, c_scopep,
                 deleted, errors, fatal, drains>>

\* A visit that queues every reference.
QueuesVarRefAlways(a, nodep) == TRUE

\* Whether visit(AstVarRef) queues the reference: not when the variable is an
\* interface reference.
QueuesVarRef(a, nodep) == ~a[a[nodep].varp].isIfaceRef

\* visit(AstVarRef): the reference is queued with the current scope, or its
\* varscope is cleared.
VisitVarRef ==
  /\ pc = "build" /\ AtChild /\ ast[Cur].type = "VarRef"
  /\ LET nodep == Cur
     IN IF ast[nodep].varp = NULL
        THEN /\ fatal' = "Unlinked" /\ pc' = "aborted"
             /\ UNCHANGED <<ast, m_varRefScopes, stack>>
        ELSE /\ IF QueuesVarRef(ast, nodep)
                THEN /\ m_varRefScopes' = m_varRefScopes \cup {<<nodep, m_scopep>>}
                     /\ ast' = ast
                ELSE /\ ast' = [ast EXCEPT ![nodep].varScopep = NULL]
                     /\ m_varRefScopes' = m_varRefScopes
             /\ stack' = Advance(stack)
             /\ UNCHANGED <<fatal, pc>>
  /\ UNCHANGED <<cfg, builderVars, m_packageScopes, m_varScopes, c_scopep, deleted,
                 errors, drains>>

\* visit(AstNodeProcedure), visit(AstAssignAlias), visit(AstAssignVarScope),
\* visit(AstAssignW), visit(AstAlwaysPublic), visit(AstCoverToggle): a clone
\* of the block goes under the current scope and is iterated.
VisitBlock ==
  /\ pc = "build" /\ AtChild /\ ast[Cur].type \in SimpleBlockTypes
  /\ LET nodep == Cur
         clonep == Len(ast) + 1
         a1 == [CloneTree(ast, nodep) EXCEPT ![nodep].user2p = clonep]
         a2 == AddChild(a1, m_scopep, clonep)
     IN /\ ast' = a2
        /\ stack' = IterateChildren(a2, stack, clonep)
  /\ UNCHANGED <<cfg, pc, builderVars, tableVars, c_scopep, deleted, errors, fatal,
                 drains>>

\* visit(AstCFunc): as a block, and the clone is given the current scope.
VisitCFunc ==
  /\ pc = "build" /\ AtChild /\ ast[Cur].type = "CFunc"
  /\ LET nodep == Cur
         clonep == Len(ast) + 1
         a1 == [CloneTree(ast, nodep) EXCEPT ![nodep].user2p = clonep]
         a2 == [AddChild(a1, m_scopep, clonep) EXCEPT ![clonep].scopep = m_scopep]
     IN /\ ast' = a2
        /\ stack' = IterateChildren(a2, stack, clonep)
  /\ UNCHANGED <<cfg, pc, builderVars, tableVars, c_scopep, deleted, errors, fatal,
                 drains>>

\* A visit that clones every task.
MovesFTaskNever(a, nodep) == FALSE

\* Whether visit(AstNodeFTask) moves the task itself instead of a clone.
MovesFTask(a, nodep) == a[nodep].classMethod

\* visit(AstNodeFTask): a class method is unlinked and moved under the
\* current scope; any other task is cloned as a block is.
VisitNodeFTask ==
  /\ pc = "build" /\ AtChild /\ ast[Cur].type = "FTask"
  /\ LET nodep == Cur
         moved == MovesFTask(ast, nodep)
         clonep == IF moved THEN nodep ELSE Len(ast) + 1
         a1 == IF moved THEN UnlinkFrBack(ast, nodep) ELSE CloneTree(ast, nodep)
         a2 == AddChild([a1 EXCEPT ![nodep].user2p = clonep], m_scopep, clonep)
     IN /\ ast' = a2
        /\ stack' = IF ~moved THEN IterateChildren(a2, stack, clonep)
                    ELSE IF ChildrenOf(a2, clonep) = <<>> THEN stack
                    ELSE Append(stack, Frame("iter", clonep))
  /\ UNCHANGED <<cfg, pc, builderVars, tableVars, c_scopep, deleted, errors, fatal,
                 drains>>

\* visit(AstClass): a scope of its own under the current scope, linked under
\* the class; the members are iterated with it as the current scope.
VisitClass ==
  /\ pc = "build" /\ AtChild /\ ast[Cur].type = "Class"
  /\ LET nodep == Cur
         scopep == Len(ast) + 1
         scopename == ClassScopeName(ast, m_scopep, nodep)
         a1 == Append(User1ClearTree(ast),
                      NewScope(m_modp, scopename, m_scopep, m_aboveCellp))
     IN /\ ast' = User1ClearTree(AddChild(a1, nodep, scopep))
        /\ m_aboveScopep' = m_scopep
        /\ m_scopep' = scopep
        /\ stack' = Append(Advance(stack),
                           [Frame("iter_class", nodep) EXCEPT
                              !.oldScopep = m_scopep,
                              !.oldAbCellp = m_aboveCellp,
                              !.oldAbScopep = m_aboveScopep])
  /\ UNCHANGED <<cfg, pc, m_modp, m_aboveCellp, tableVars, c_scopep, deleted, errors,
                 fatal, drains>>

\* visit(AstClass) returns: the context is restored.
ClassReturn ==
  /\ pc = "build" /\ AtEnd("iter_class")
  /\ m_scopep' = TopFrame.oldScopep
  /\ m_aboveCellp' = TopFrame.oldAbCellp
  /\ m_aboveScopep' = TopFrame.oldAbScopep
  /\ stack' = Pop(stack)
  /\ UNCHANGED <<cfg, ast, pc, m_modp, tableVars, c_scopep, deleted, errors, fatal,
                 drains>>

\* visit(AstScope): a scope made for another cell of this module is skipped.
VisitScope ==
  /\ pc = "build" /\ AtChild /\ ast[Cur].type = "Scope"
  /\ stack' = Advance(stack)
  /\ UNCHANGED <<cfg, ast, pc, builderVars, tableVars, c_scopep, deleted, errors,
                 fatal, drains>>

\* The types ScopeVisitor has a visit function for.
ScopeVisitorTypes ==
  BlockTypes \cup {"Var", "VarRef", "Class", "Scope", "Netlist", "Module", "Package"}

\* visit(AstNode): the children are iterated.
VisitNode ==
  /\ pc = "build" /\ AtChild /\ ast[Cur].type \notin ScopeVisitorTypes
  /\ stack' = IterateChildren(ast, stack, Cur)
  /\ UNCHANGED <<cfg, ast, pc, builderVars, tableVars, c_scopep, deleted, errors,
                 fatal, drains>>

\* iterateChildren returns.
IterateReturn ==
  /\ pc = "build" /\ AtEnd("iter")
  /\ stack' = Pop(stack)
  /\ UNCHANGED <<cfg, ast, pc, builderVars, tableVars, c_scopep, deleted, errors,
                 fatal, drains>>

\* m_packageScopes.find
PackageScopeOf(tab, pkgp) ==
  IF \E e \in tab : e[1] = pkgp THEN (CHOOSE e \in tab : e[1] = pkgp)[2] ELSE NULL

\* A find keyed by the variable alone: any scope's entry answers.
VarScopeOfAnyScope(tab, varp, scopep) ==
  IF \E e \in tab : e[1] = varp
  THEN (CHOOSE e \in tab : e[1] = varp)[3]
  ELSE NULL

\* m_varScopes.find
VarScopeOf(tab, varp, scopep) ==
  IF \E e \in tab : e[1] = varp /\ e[2] = scopep
  THEN (CHOOSE e \in tab : e[1] = varp /\ e[2] = scopep)[3]
  ELSE NULL

\* A lookup that never turns to the package's scope.
EffectiveScopeQueued(a, tab, nodep, scopep) == scopep

\* The scope a queued reference is looked up under: the package's scope for
\* a reference into a package that is no class member, else the scope it was
\* queued with.
EffectiveScope(a, tab, nodep, scopep) ==
  IF a[nodep].packagep # NULL /\ ~a[a[nodep].varp].isClassMember
  THEN PackageScopeOf(tab, a[nodep].packagep)
  ELSE scopep

\* The varscope cleanupVarRefs finds for a queued pair, NULL when a lookup
\* fails.
LookupVarScope(a, nodep, scopep) ==
  LET eff == EffectiveScope(a, m_packageScopes, nodep, scopep)
  IN IF eff = NULL THEN NULL ELSE VarScopeOf(m_varScopes, a[nodep].varp, eff)

\* cleanupVarRefs: every queued reference is bound.  The set is walked in the
\* order of its pairs, so the last pair of a reference decides.
CleanupVarRefs ==
  /\ pc = "resolve"
  /\ drains' = drains + 1
  /\ LET last(n) == CHOOSE e \in m_varRefScopes :
                      e[1] = n /\ \A e2 \in m_varRefScopes : e2[1] = n => e2[2] <= e[2]
         queued == {e[1] : e \in m_varRefScopes}
     IN IF \E e \in m_varRefScopes : LookupVarScope(ast, e[1], e[2]) = NULL
        THEN /\ fatal' = "Can't locate varref scope" /\ pc' = "aborted"
             /\ ast' = ast
        ELSE /\ ast' = [n \in DOMAIN ast |->
                         IF n \in queued
                         THEN [ast[n] EXCEPT !.varScopep =
                                 LookupVarScope(ast, n, last(n)[2])]
                         ELSE ast[n]]
             /\ pc' = "clean_start"
             /\ fatal' = fatal
  /\ UNCHANGED <<cfg, stack, builderVars, tableVars, c_scopep, deleted, errors>>

\* ----------------------------------------------------- ScopeCleanupVisitor

\* The constructor: no scope is current and the netlist is iterated.
CleanStart ==
  /\ pc = "clean_start"
  /\ c_scopep' = NULL
  /\ stack' = <<Frame("iter", Netlistp)>>
  /\ pc' = "clean"
  /\ UNCHANGED <<cfg, ast, builderVars, tableVars, deleted, errors, fatal, drains>>

\* visit(AstScope): the scope is current while its children are iterated.
CleanVisitScope ==
  /\ pc = "clean" /\ AtChild /\ ast[Cur].type = "Scope"
  /\ c_scopep' = Cur
  /\ stack' = Append(Advance(stack), Frame("iter_scope", Cur))
  /\ UNCHANGED <<cfg, ast, pc, builderVars, tableVars, deleted, errors, fatal, drains>>

\* visit(AstScope) returns: no scope is current.
CleanScopeReturn ==
  /\ pc = "clean" /\ AtEnd("iter_scope")
  /\ c_scopep' = NULL
  /\ stack' = Pop(stack)
  /\ UNCHANGED <<cfg, ast, pc, builderVars, tableVars, deleted, errors, fatal, drains>>

\* A cleanup that keeps every block.
KeepsBlockAlways(scopep) == TRUE

\* Whether movedDeleteOrIterate keeps the block: under a scope.
KeepsBlock(scopep) == scopep # NULL

\* movedDeleteOrIterate: a block under a scope is iterated, a block outside
\* any scope is unlinked and pushed for deletion.
MovedDeleteOrIterate ==
  /\ pc = "clean" /\ AtChild /\ ast[Cur].type \in BlockTypes
  /\ IF KeepsBlock(c_scopep)
     THEN /\ stack' = IterateChildren(ast, stack, Cur)
          /\ UNCHANGED <<ast, deleted>>
     ELSE /\ ast' = UnlinkFrBack(ast, Cur)
          /\ deleted' = deleted \cup {Cur}
          /\ stack' = stack
  /\ UNCHANGED <<cfg, pc, builderVars, tableVars, c_scopep, errors, fatal, drains>>

\* visit(AstVarXRef): the variable is cleared.
CleanVarXRef ==
  /\ pc = "clean" /\ AtChild /\ ast[Cur].type = "VarXRef"
  /\ ast' = [ast EXCEPT ![Cur].varp = NULL]
  /\ stack' = Advance(stack)
  /\ UNCHANGED <<cfg, pc, builderVars, tableVars, c_scopep, deleted, errors, fatal,
                 drains>>

\* A call that is left pointing to the task it pointed to.
PackageTaskOriginal(a, nodep) == a[nodep].taskp

\* The task a call with a package points to afterwards: the clone its task's
\* user2p records.
PackageTaskClone(a, nodep) == a[a[nodep].taskp].user2p

\* visit(AstNodeFTaskRef): a call with a package points to the clone of its
\* task; any other call that is no method call is cleared.
CleanNodeFTaskRef ==
  /\ pc = "clean" /\ AtChild /\ IsNodeFTaskRef(ast, Cur)
  /\ LET nodep == Cur
     IN IF ast[nodep].packagep # NULL
        THEN IF ast[nodep].taskp = NULL \/ PackageTaskClone(ast, nodep) = NULL
             THEN /\ fatal' = "No clone for package function" /\ pc' = "aborted"
                  /\ UNCHANGED <<ast, stack>>
             ELSE /\ ast' = [ast EXCEPT ![nodep].taskp = PackageTaskClone(ast, nodep)]
                  /\ stack' = IterateChildren(ast, stack, nodep)
                  /\ UNCHANGED <<fatal, pc>>
        ELSE /\ ast' = IF ast[nodep].type # "MethodCall"
                       THEN [ast EXCEPT ![nodep].taskp = NULL]
                       ELSE ast
             /\ stack' = IterateChildren(ast, stack, nodep)
             /\ UNCHANGED <<fatal, pc>>
  /\ UNCHANGED <<cfg, builderVars, tableVars, c_scopep, deleted, errors, drains>>

\* visit(AstModportFTaskRef): the task is cleared.
CleanModportFTaskRef ==
  /\ pc = "clean" /\ AtChild /\ ast[Cur].type = "ModportFTaskRef"
  /\ ast' = [ast EXCEPT ![Cur].ftaskp = NULL]
  /\ stack' = IterateChildren(ast, stack, Cur)
  /\ UNCHANGED <<cfg, pc, builderVars, tableVars, c_scopep, deleted, errors, fatal,
                 drains>>

\* The types ScopeCleanupVisitor has a visit function for.
CleanupVisitorTypes ==
  BlockTypes \cup {"Scope", "VarXRef", "FTaskRef", "MethodCall", "ModportFTaskRef"}

\* visit(AstNode): the children are iterated.
CleanVisitNode ==
  /\ pc = "clean" /\ AtChild /\ ast[Cur].type \notin CleanupVisitorTypes
  /\ stack' = IterateChildren(ast, stack, Cur)
  /\ UNCHANGED <<cfg, ast, pc, builderVars, tableVars, c_scopep, deleted, errors,
                 fatal, drains>>

\* iterateChildren returns; the return from the netlist ends the pass.
CleanIterateReturn ==
  /\ pc = "clean" /\ AtEnd("iter")
  /\ stack' = Pop(stack)
  /\ pc' = IF Len(stack) = 1 THEN "done" ELSE pc
  /\ UNCHANGED <<cfg, ast, builderVars, tableVars, c_scopep, deleted, errors, fatal,
                 drains>>

\* --------------------------------------------------------------- the pass

Next ==
  \/ VisitNetlist
  \/ VisitNodeModule
  \/ CellLoopDescend
  \/ CellLoopSkip
  \/ ModulePopulate
  \/ ModuleReturn
  \/ VisitVar
  \/ VisitVarRef
  \/ VisitBlock
  \/ VisitCFunc
  \/ VisitNodeFTask
  \/ VisitClass
  \/ ClassReturn
  \/ VisitScope
  \/ VisitNode
  \/ IterateReturn
  \/ CleanupVarRefs
  \/ CleanStart
  \/ CleanVisitScope
  \/ CleanScopeReturn
  \/ MovedDeleteOrIterate
  \/ CleanVarXRef
  \/ CleanNodeFTaskRef
  \/ CleanModportFTaskRef
  \/ CleanVisitNode
  \/ CleanIterateReturn

Spec == Init /\ [][Next]_vars


\* ------------------------------------------------------------- properties

Nodes == DOMAIN ast

Scopes == {n \in Nodes : ast[n].type = "Scope"}

\* A class's scope is linked under its class when it is made.
ClassScopes == {s \in Scopes : ast[s].backp # NULL /\ ast[ast[s].backp].type = "Class"}

ModuleScopes == Scopes \ ClassScopes

VarScopes == {n \in Nodes : ast[n].type = "VarScope"}

\* The builder has returned to visit(AstNetlist) with a tree built.
Built == pc \in {"resolve", "clean_start", "clean", "done"} /\ cfg.hasTop

\* cleanupVarRefs has returned.
Resolved == pc \in {"clean_start", "clean", "done"} /\ cfg.hasTop

\* The whole pass has run on a netlist with a top module.
Finished == pc = "done" /\ cfg.hasTop

RECURSIVE InstPathsFrom(_, _)
\* The cell paths below a module instantiated at path, each with the module
\* it reaches, its cell and the path of the instantiating module.
InstPathsFrom(modp, path) ==
  UNION { {<<Append(path, ast[c].name), ast[c].modp, c, path>>}
            \cup InstPathsFrom(ast[c].modp, Append(path, ast[c].name)) :
          c \in {x \in Nodes : ast[x].type = "Cell" /\ ast[x].backp = modp} }

\* Every instantiation path of the netlist.
InstPaths ==
  {<<(<<"TOP">>), ast[Netlistp].modp, NULL, <<>>>>}
    \cup InstPathsFrom(ast[Netlistp].modp, <<"TOP">>)

\* What a module scope records.
ScopeRecord(s) ==
  <<ast[s].path, ast[s].modp, ast[s].aboveCellp,
    IF ast[s].aboveScopep = NULL THEN <<>> ELSE ast[ast[s].aboveScopep].path>>

\* C1: after the builder there is exactly one scope per instantiation path:
\* the module scopes and the paths correspond one to one, the top module's
\* scope is named TOP, a scope reached through a cell is named by its parent
\* scope's name, a dot and the cell's name, and its aboveScopep and
\* aboveCellp are the scope of the instantiating module and the cell.
C1_OneScopePerPath ==
  Built =>
    /\ {ScopeRecord(s) : s \in ModuleScopes} = InstPaths
    /\ Cardinality(ModuleScopes) = Cardinality(InstPaths)
    /\ \A s \in ModuleScopes :
         /\ ast[s].aboveScopep = NULL <=> ast[s].aboveCellp = NULL
         /\ ast[s].aboveScopep = NULL => ast[s].path = <<"TOP">> /\ ast[ast[s].modp].isTop
         /\ ast[s].aboveScopep # NULL =>
              /\ ast[s].aboveScopep \in ModuleScopes
              /\ ast[ast[s].aboveCellp].backp = ast[ast[s].aboveScopep].modp
              /\ ast[ast[s].aboveCellp].modp = ast[s].modp
              /\ ast[s].path = Append(ast[ast[s].aboveScopep].path,
                                      ast[ast[s].aboveCellp].name)

\* A module reached through three paths has its three scopes.
C1_Witness ==
  /\ Finished
  /\ \E m \in Nodes : Cardinality({s \in ModuleScopes : ast[s].modp = m}) >= 3


\* A node directly under a statement block that a scope owns.
InScope(n) ==
  /\ ast[n].backp # NULL
  /\ ast[ast[n].backp].type \in BlockTypes
  /\ ast[ast[n].backp].backp # NULL
  /\ ast[ast[ast[n].backp].backp].type = "Scope"

\* The scope that owns the block a node is in.
OwnerScope(n) == ast[ast[n].backp].backp

\* The variable references in scope-owned blocks.
ScopedVarRefs == {n \in Nodes : ast[n].type = "VarRef" /\ InScope(n)}

\* Those that are resolved under the scope they were visited in: no package,
\* or a class member, and no interface reference.
LocalVarRefs ==
  {r \in ScopedVarRefs :
     /\ ast[r].packagep = NULL \/ ast[ast[r].varp].isClassMember
     /\ ~ast[ast[r].varp].isIfaceRef}

\* C2: after the resolver every reference visited under scope P to a
\* declaration V of P's module is bound to the varscope made for <<V, P>>;
\* there is one varscope per <<declaration, scope>>, and references to V from
\* two scopes are bound to two varscopes.  No lookup fails.
C2_RefBoundInOwnScope ==
  /\ fatal = ""
  /\ Resolved =>
       /\ \A r \in LocalVarRefs :
            /\ ast[r].varScopep \in VarScopes
            /\ ast[ast[r].varScopep].varp = ast[r].varp
            /\ ast[ast[r].varScopep].scopep = OwnerScope(r)
            /\ <<ast[r].varp, OwnerScope(r), ast[r].varScopep>> \in m_varScopes
       /\ \A v1, v2 \in VarScopes :
            (ast[v1].varp = ast[v2].varp /\ ast[v1].scopep = ast[v2].scopep) => v1 = v2
       /\ \A r1, r2 \in LocalVarRefs :
            (ast[r1].varp = ast[r2].varp /\ OwnerScope(r1) # OwnerScope(r2))
              => ast[r1].varScopep # ast[r2].varScopep

\* Two clones of one reference, under two scopes of the module, bound to the
\* two varscopes of the variable.
C2_Witness ==
  /\ Resolved
  /\ \E r1, r2 \in LocalVarRefs :
       /\ ast[r1].label = ast[r2].label
       /\ OwnerScope(r1) # OwnerScope(r2)
       /\ ast[r1].varScopep \in VarScopes /\ ast[r2].varScopep \in VarScopes
       /\ ast[r1].varScopep # ast[r2].varScopep


Packages == {n \in Nodes : ast[n].type = "Package"}

\* The references into a package that are resolved under the package's scope.
PackageVarRefs ==
  {r \in ScopedVarRefs : ast[r].packagep # NULL /\ ~ast[ast[r].varp].isClassMember}

\* C3: every package has exactly one scope, the one m_packageScopes records;
\* after the resolver every reference to a member of the package that is no
\* class member, from whichever scope, is bound to the varscope under that
\* scope, and every variable of a package has exactly one varscope.  No
\* lookup fails.
C3_PackageSingleScope ==
  /\ fatal = ""
  /\ Built =>
       \A p \in Packages :
         /\ Cardinality({s \in ModuleScopes : ast[s].modp = p}) = 1
         /\ {e[2] : e \in {x \in m_packageScopes : x[1] = p}}
              = {s \in ModuleScopes : ast[s].modp = p}
  /\ Resolved =>
       /\ \A r \in PackageVarRefs :
            /\ ast[r].varScopep \in VarScopes
            /\ ast[ast[r].varScopep].varp = ast[r].varp
            /\ ast[ast[r].varScopep].scopep \in ModuleScopes
            /\ ast[ast[ast[r].varScopep].scopep].modp = ast[r].packagep
            /\ ast[OwnerScope(r)].modp # ast[r].packagep
                 => ast[ast[r].varScopep].scopep # OwnerScope(r)
       /\ \A v \in Nodes :
            (ast[v].type = "Var" /\ ast[v].backp \in Packages)
              => Cardinality({vs \in VarScopes : ast[vs].varp = v}) = 1

\* References to a package variable from the scopes of two other modules,
\* bound to one varscope.
C3_Witness ==
  /\ Resolved
  /\ \E r1, r2 \in PackageVarRefs :
       /\ ast[ast[OwnerScope(r1)].modp].type = "Module"
       /\ ast[ast[OwnerScope(r2)].modp].type = "Module"
       /\ ast[OwnerScope(r1)].modp # ast[OwnerScope(r2)].modp
       /\ ast[r1].varScopep \in VarScopes
       /\ ast[r1].varScopep = ast[r2].varScopep

Blocks == {n \in Nodes : ast[n].type \in BlockTypes}

\* The nodes that have n in their list of children.
OwnersOf(n) == {p \in Nodes : \E i \in 1..Len(ast[p].children) : ast[p].children[i] = n}

\* C4: after the cleanup no statement block is left under a module or a
\* class outside a scope: a block is either unlinked and pushed for deletion,
\* or the child of exactly one node, a scope, once.
C4_BlocksOwnedByOneScope ==
  pc = "done" =>
    \A n \in Blocks :
      IF n \in deleted
      THEN OwnersOf(n) = {} /\ ast[n].backp = NULL
      ELSE /\ OwnersOf(n) = {ast[n].backp}
           /\ ast[ast[n].backp].type = "Scope"
           /\ Cardinality({i \in 1..Len(ast[ast[n].backp].children) :
                             ast[ast[n].backp].children[i] = n}) = 1

\* The pass is over: originals were deleted, clones and a moved class method
\* are under scopes.
C4_Witness ==
  /\ Finished
  /\ deleted # {}
  /\ \E n, m \in Blocks \ deleted :
       /\ ast[n].classMethod /\ ast[ast[n].backp].type = "Scope"
       /\ ~ast[m].classMethod /\ ast[ast[m].backp].type = "Scope"

\* C5: a varscope is not traced exactly when the cell that instantiates its
\* own scope is not traced, whatever the other cells are.
C5_TraceFollowsOwnCell ==
  \A vs \in VarScopes :
    (ast[vs].trace = FALSE)
      <=> (/\ ast[ast[vs].scopep].aboveCellp # NULL
           /\ ~ast[ast[ast[vs].scopep].aboveCellp].isTrace)

\* Two varscopes of one variable, one not traced and one traced, and a traced
\* varscope of a module whose own child cell is not traced.
C5_Witness ==
  /\ \E v1, v2 \in VarScopes :
       ast[v1].varp = ast[v2].varp /\ ~ast[v1].trace /\ ast[v2].trace
  /\ \E v3 \in VarScopes, c \in Nodes :
       /\ ast[v3].trace
       /\ ast[c].type = "Cell" /\ ~ast[c].isTrace
       /\ ast[c].backp = ast[ast[v3].scopep].modp


OrigTaskp(r) ==
  LET a0 == InitAst(cfg)
  IN a0[CHOOSE i \in DOMAIN a0 : a0[i].label = ast[r].label].taskp

\* The nodes of a type in scope-owned blocks.
Scoped(types) == {n \in Nodes : ast[n].type \in types /\ InScope(n)}

\* A node that is linked under a scope and was not pushed for deletion.
ScopeOwned(n) ==
  /\ n # NULL /\ n \notin deleted
  /\ ast[n].backp # NULL /\ ast[ast[n].backp].type = "Scope"

\* C7: after the whole pass every reference in a scope-owned block is bound
\* to a scope-owned node or is NULL: a queued variable reference is bound to
\* a varscope, a reference to an interface variable, a cross reference's
\* variable and a modport call's task are NULL, a call with a package points
\* to the clone its task's user2p records, a clone under a scope, and any
\* other call that is no method call is NULL; none points to a deleted node.
C7_RefsBoundOrNull ==
  /\ fatal = ""
  /\ Finished =>
       /\ \A e \in m_varRefScopes : ScopeOwned(ast[e[1]].varScopep)
       /\ \A r \in ScopedVarRefs :
            IF ast[ast[r].varp].isIfaceRef THEN ast[r].varScopep = NULL
            ELSE ast[r].varScopep \in VarScopes /\ ScopeOwned(ast[r].varScopep)
       /\ \A r \in Scoped({"VarXRef"}) : ast[r].varp = NULL
       /\ \A r \in Scoped({"ModportFTaskRef"}) : ast[r].ftaskp = NULL
       /\ \A r \in Scoped({"FTaskRef", "MethodCall"}) :
            IF ast[r].packagep # NULL
            THEN /\ ast[r].taskp = ast[OrigTaskp(r)].user2p
                 /\ ScopeOwned(ast[r].taskp)
                 /\ ast[ast[r].taskp].type = "FTask"
                 /\ ast[ast[r].taskp].label = ast[OrigTaskp(r)].label
            ELSE IF ast[r].type # "MethodCall" THEN ast[r].taskp = NULL
            ELSE ScopeOwned(ast[r].taskp)

\* A call with a package in the package's own class method, which the
\* cleanup reaches after it has unlinked the task the call pointed to: the
\* call points to the clone.
C7_Witness ==
  /\ Finished
  /\ \E r \in Scoped({"FTaskRef"}) :
       /\ ast[r].packagep # NULL
       /\ ast[ast[r].backp].classMethod
       /\ OrigTaskp(r) \in deleted
       /\ ast[r].taskp # OrigTaskp(r)
       /\ ScopeOwned(ast[r].taskp)
  /\ \E r \in Scoped({"VarXRef"}) : ast[r].varp = NULL
  /\ \E r \in Scoped({"ModportFTaskRef"}) : ast[r].ftaskp = NULL

\* The annotation a name calls for.
ClockerOfName(name) ==
  IF name \in cfg.noClockers THEN "CLOCKER_NO"
  ELSE IF name \in cfg.clockers THEN "CLOCKER_YES"
  ELSE "CLOCKER_UNKNOWN"

\* C8: the clocker annotation seen for a varscope is the one its own pretty
\* name calls for.
C8_ClockerPerVarScope ==
  \A vs \in VarScopes :
    ast[ast[vs].varp].attrClocker = ClockerOfName(PrettyName(ast, vs))

\* The visited references that are to be queued.
QueueableVarRefs == {r \in ScopedVarRefs : ~ast[ast[r].varp].isIfaceRef}

\* C9: no reference is bound while the builder walks; a visited reference is
\* queued with the scope current at its visit unless its variable is an
\* interface reference, which is never queued and stays NULL; the queue is
\* drained once, after the builder is done, and then every queued reference
\* is bound, also to a varscope made after the reference was visited.
C9_DeferredResolution ==
  /\ fatal = ""
  /\ drains <= 1
  /\ pc \in {"start", "build", "resolve"} =>
       /\ drains = 0
       /\ \A n \in Nodes : ast[n].varScopep = NULL
  /\ \A e \in m_varRefScopes :
       /\ ast[e[1]].type = "VarRef" /\ InScope(e[1])
       /\ ~ast[ast[e[1]].varp].isIfaceRef
       /\ e[2] = OwnerScope(e[1])
  /\ Built => m_varRefScopes = {<<r, OwnerScope(r)>> : r \in QueueableVarRefs}
  /\ Resolved =>
       /\ drains = 1
       /\ \A r \in ScopedVarRefs :
            IF ast[ast[r].varp].isIfaceRef THEN ast[r].varScopep = NULL
            ELSE /\ ast[r].varScopep \in VarScopes
                 /\ ast[ast[r].varScopep].varp = ast[r].varp

\* A reference bound to a varscope made after the reference was visited, a
\* reference into the package bound under the package's scope, made after
\* the reference was visited, and an interface reference left NULL.
C9_Witness ==
  /\ Resolved
  /\ \E r \in LocalVarRefs :
       ast[r].varScopep \in VarScopes /\ r < ast[r].varScopep
  /\ \E r \in PackageVarRefs :
       ast[r].varScopep \in VarScopes /\ r < ast[ast[r].varScopep].scopep
  /\ \E r \in ScopedVarRefs : ast[ast[r].varp].isIfaceRef /\ ast[r].varScopep = NULL

ClassMethods == {n \in Nodes : ast[n].type = "FTask" /\ ast[n].classMethod}

Cells == {n \in Nodes : ast[n].type = "Cell"}

\* The scopes of the class whose scope s is.
ScopesOfClassOf(s) == {t \in ClassScopes : ast[t].backp = ast[s].backp}

====
